---- MODULE Spec2Model ----
(***************************************************************************)
(* nocrux 1.1.0 (src/nocrux.py): a per-user daemon manager.  The model     *)
(* covers the PID file, the OS process table as os.kill() sees it, and     *)
(* the start / stop / restart / status commands of main() with             *)
(* Daemon.start() and Daemon.stop() taken statement by statement.          *)
(*                                                                         *)
(* Time is counted in ticks of half a time-unit, the period of the         *)
(* time.sleep(0.5) in the wait loop of Daemon.stop().                      *)
(***************************************************************************)
EXTENDS Integers, Sequences, FiniteSets, TLC

\* ---- bounds of the model ------------------------------------------------
MaxPid == 3          \* process ids are 1..MaxPid
KillTimeout == 1     \* config.kill_timeout, in time-units (the default is 10)
MaxOversleep == 1    \* ticks a time.sleep(0.5) may take beyond the one asked

\* ---- program constants --------------------------------------------------
TicksPerUnit == 2    \* time.sleep(0.5): two polls per time-unit
SIGTERM == 15
SIGKILL == 9
EPERM == 1           \* errno.EPERM, the exit status of a refused setuid/setgid

Daemons == {"a", "b"}
\* what the command line can select: names in any order; 'all' is <<"a","b">>
Selections == {<<"a">>, <<"b">>, <<"a", "b">>, <<"b", "a">>}
Commands == {"start", "stop", "restart", "status"}
PIDs == 1..MaxPid

VARIABLES
  pidfile,     \* [Daemons -> [exists, text]]: the PID file of each daemon
  dirs,        \* daemons whose pidfile/stdin/stdout directories exist
  proc,        \* [PIDs -> "none" | "child" | "run" | "termed" | "killed"]
  launched,    \* [Daemons -> pid of its running program, 0 when it has none]
  cmd,         \* args.command of the running (or last) invocation
  targets,     \* target_daemons
  loop,        \* which for-loop of main() is running
  idx,         \* position of that loop in target_daemons (1-based)
  pc,          \* the statement the invocation is at; "idle" between invocations
  pid,         \* local pid of Daemon.stop()
  elapsed,     \* time.time() - tstart of Daemon.stop(), in ticks
  ident,       \* locals of Daemon.start(): uid, gid, whether the invoker is
               \* root, and whether the flow still runs as root
  child,       \* pid returned by os.fork() in Daemon.start(), 0 outside
  pidf,        \* the file object pidf of the detached flow: [open, buf]
  process,     \* process.pid of subprocess.Popen() in the last start(), or 0
  wstatus,     \* exit status of the detached flow as os.waitpid() reports it
  ret,         \* value returned by the last Daemon.start()/stop() call
  exitCode,    \* exit code of the last invocation (read when pc = "idle")
  log,         \* log lines of the current start()/stop()/status call
  reportedPid, \* the n of the last 'started (PID: n)' line
  sigLog,      \* signals os.kill() sent during the current stop() call
  calls,       \* start()/stop() calls made by the invocation, in order
  done,        \* statements of start() executed since its status test, in
               \* order, until the detached flow has ended
  polls        \* time.sleep(0.5) calls the wait loop of stop() has made, while
               \* that loop is running

vars == <<pidfile, dirs, proc, launched, cmd, targets, loop, idx, pc, pid,
          elapsed, ident, child, pidf, process, wstatus, ret, exitCode, log,
          reportedPid, sigLog, calls, done, polls>>

\* ---- text <-> integer, as str() and int() do it -------------------------
Digits == <<"0", "1", "2", "3", "4", "5", "6", "7", "8", "9">>

IsDigit(c) == \E i \in 1..10 : Digits[i] = c

DigitVal(c) == (CHOOSE i \in 1..10 : Digits[i] = c) - 1

RECURSIVE DigitsValue(_)
DigitsValue(s) ==
  IF s = <<>> THEN 0
  ELSE 10 * DigitsValue(SubSeq(s, 1, Len(s) - 1)) + DigitVal(s[Len(s)])

\* int(s) raises ValueError unless s is an optional sign and then digits
Unsigned(s) == IF s # <<>> /\ s[1] \in {"-", "+"} THEN Tail(s) ELSE s

IsInt(s) == Unsigned(s) # <<>> /\ \A i \in 1..Len(Unsigned(s)) : IsDigit(Unsigned(s)[i])

IntOf(s) == IF s[1] = "-" THEN 0 - DigitsValue(Unsigned(s)) ELSE DigitsValue(Unsigned(s))

RECURSIVE Str(_)
Str(n) ==
  IF n < 10 THEN <<Digits[n + 1]>>
  ELSE Str(n \div 10) \o <<Digits[(n % 10) + 1]>>

NoFile == [exists |-> FALSE, text |-> <<>>]
File(s) == [exists |-> TRUE, text |-> s]

\* ---- Daemon.pid, process_exists, Daemon.status --------------------------
\* Daemon.pid: ENOENT reads as '', and a ValueError of int() as 0
PidIn(f) ==
  LET pid_str == IF f.exists THEN f.text ELSE <<>>
  IN  IF IsInt(pid_str) THEN IntOf(pid_str) ELSE 0

Pid(d) == PidIn(pidfile[d])

\* the processes os.kill(p, sig) reaches in a process table t, the caller aside:
\* p > 0 is that process, p = -1 every process the caller may signal.
\* (p = 0 is the caller's own process group, see KillsSelf; groups -n are not
\* modelled and read as absent.)
KillTargetsIn(t, p) ==
  IF p > 0 THEN {q \in PIDs : q = p /\ t[q] # "none"}
  ELSE IF p = 0 - 1 THEN {q \in PIDs : t[q] # "none"}
  ELSE {}

KillsSelf(p) == p = 0

\* os.kill(p, sig) returns without OSError
KillOKIn(t, p) == KillsSelf(p) \/ KillTargetsIn(t, p) # {}

\* mutant: process_exists() without its 'if pid == 0: return False'
process_existsNoZeroTest(t, p) == KillOKIn(t, p)

process_existsIn(t, p) == IF p = 0 THEN FALSE ELSE KillOKIn(t, p)

process_exists(p) == process_existsIn(proc, p)

StatusIn(t, f) == IF process_existsIn(t, PidIn(f)) THEN "started" ELSE "stopped"

Status(d) == StatusIn(proc, pidfile[d])

\* the process table after os.kill(p, sig) delivered sig
Signalled(p, sig) ==
  [q \in PIDs |->
     IF q \in KillTargetsIn(proc, p)
     THEN IF sig = SIGKILL THEN "killed"
          ELSE IF proc[q] = "run" THEN "termed" ELSE proc[q]
     ELSE proc[q]]

FreePids == {q \in PIDs : proc[q] = "none"}

Forget(q) == [d \in Daemons |-> IF launched[d] = q THEN 0 ELSE launched[d]]

NoIdent == [uid |-> "None", gid |-> "None", invoker |-> "user", root |-> FALSE]
NoPidf == [open |-> FALSE, buf |-> <<>>]
cur == targets[idx]

Init ==
  /\ pidfile = [d \in Daemons |-> NoFile]
  /\ dirs = {}
  /\ proc = [q \in PIDs |-> "none"]
  /\ launched = [d \in Daemons |-> 0]
  /\ cmd = "none"
  /\ targets = <<>>
  /\ loop = "none"
  /\ idx = 1
  /\ pc = "idle"
  /\ pid = 0
  /\ elapsed = 0
  /\ ident = NoIdent
  /\ child = 0
  /\ pidf = NoPidf
  /\ process = 0
  /\ wstatus = 0
  /\ ret = "None"
  /\ exitCode = 0
  /\ log = <<>>
  /\ reportedPid = 0
  /\ sigLog = <<>>
  /\ calls = <<>>
  /\ done = <<>>
  /\ polls = 0

osVars == <<pidfile, dirs, proc, launched>>
mainVars == <<cmd, targets, loop, idx>>
stopVars == <<pid, elapsed, sigLog, polls>>
startVars == <<ident, child, pidf, process, wstatus, reportedPid, done>>

\* ---- the environment: other processes of the machine --------------------
\* a running process ends on its own, or because it honours SIGTERM
ProcExit(q) ==
  /\ proc[q] \in {"run", "termed"}
  /\ proc' = [proc EXCEPT ![q] = "none"]
  /\ launched' = Forget(q)
  /\ UNCHANGED <<pidfile, dirs, mainVars, pc, stopVars, startVars, ret,
                 exitCode, log, calls>>

\* the kernel removes a process that has SIGKILL pending
KillDelivered(q) ==
  /\ proc[q] = "killed"
  /\ proc' = [proc EXCEPT ![q] = "none"]
  /\ launched' = Forget(q)
  /\ UNCHANGED <<pidfile, dirs, mainVars, pc, stopVars, startVars, ret,
                 exitCode, log, calls>>

\* An unrelated process is created; the kernel may hand out any free id.  Only
\* an id that some PID file records can be seen by the program, so the others
\* are left out: they would do no more than keep ids from being handed out.
SpawnOther(q) ==
  /\ proc[q] = "none"
  /\ \E d \in Daemons : Pid(d) = q
  /\ proc' = [proc EXCEPT ![q] = "run"]
  /\ UNCHANGED <<pidfile, dirs, launched, mainVars, pc, stopVars, startVars,
                 ret, exitCode, log, calls>>

\* ---- main() -------------------------------------------------------------
\* the invocation ends with exit code c; the record of its last call is kept
Exit(c) ==
  /\ pc' = "idle"
  /\ exitCode' = c
  /\ pid' = 0
  /\ elapsed' = 0
  /\ ident' = NoIdent
  /\ child' = 0
  /\ pidf' = NoPidf
  /\ process' = 0
  /\ wstatus' = 0
  /\ done' = <<>>
  /\ polls' = 0

Invoke(c, sel) ==
  /\ pc = "idle"
  /\ cmd' = c
  /\ targets' = sel
  /\ loop' = IF c = "restart" THEN "stop" ELSE c
  /\ idx' = 1
  /\ pc' = "loop"
  /\ exitCode' = 0
  /\ ret' = "None"
  /\ log' = <<>>
  /\ sigLog' = <<>>
  /\ calls' = <<>>
  /\ reportedPid' = 0
  /\ UNCHANGED <<osVars, pid, elapsed, polls, ident, child, pidf, process,
                 wstatus, done>>

\* for daemon in target_daemons: daemon.log(daemon.status)
MainStatus ==
  /\ pc = "loop" /\ loop = "status" /\ idx <= Len(targets)
  /\ log' = <<Status(cur)>>
  /\ idx' = idx + 1
  /\ UNCHANGED <<osVars, cmd, targets, loop, pc, stopVars, startVars, ret,
                 exitCode, calls>>

MainCallStop ==
  /\ pc = "loop" /\ loop = "stop" /\ idx <= Len(targets)
  /\ pc' = "stop_pid"
  /\ calls' = Append(calls, <<"stop", cur>>)
  /\ log' = <<>>
  /\ sigLog' = <<>>
  /\ UNCHANGED <<osVars, mainVars, pid, elapsed, polls, startVars, ret,
                 exitCode>>

MainCallStart ==
  /\ pc = "loop" /\ loop = "start" /\ idx <= Len(targets)
  /\ pc' = "start_status"
  /\ calls' = Append(calls, <<"start", cur>>)
  /\ log' = <<>>
  /\ reportedPid' = 0
  /\ done' = <<>>
  /\ UNCHANGED <<osVars, mainVars, stopVars, ident, child, pidf, process,
                 wstatus, ret, exitCode>>

\* restart: the loop of stops is over, the loop of starts begins
MainRestartStarts ==
  /\ pc = "loop" /\ cmd = "restart" /\ loop = "stop" /\ idx > Len(targets)
  /\ loop' = "start"
  /\ idx' = 1
  /\ UNCHANGED <<osVars, cmd, targets, pc, stopVars, startVars, ret, exitCode,
                 log, calls>>

\* return 0 after the (last) loop
MainReturn0 ==
  /\ pc = "loop" /\ idx > Len(targets)
  /\ ~(cmd = "restart" /\ loop = "stop")
  /\ Exit(0)
  /\ UNCHANGED <<osVars, mainVars, sigLog, reportedPid, ret, log, calls>>

\* the call returned: restart drops the value of stop(); elsewhere
\* 'if not daemon.stop(): return 1' / 'if not daemon.start(): return 1'
MainAfterCall ==
  /\ pc = "ret"
  /\ IF (cmd = "restart" /\ loop = "stop") \/ ret = "True"
     THEN /\ idx' = idx + 1
          /\ pc' = "loop"
          /\ ret' = "None"
          /\ log' = <<>>
          /\ sigLog' = <<>>
          /\ reportedPid' = 0
          /\ process' = 0
          /\ UNCHANGED <<exitCode, pid, elapsed, polls, ident, child, pidf,
                         wstatus, done>>
     ELSE /\ Exit(1)
          /\ UNCHANGED <<idx, ret, log, sigLog, reportedPid>>
  /\ UNCHANGED <<osVars, cmd, targets, loop, calls>>

\* ---- Daemon.stop() ------------------------------------------------------
\* pid = self.pid
StopReadPid ==
  /\ pc = "stop_pid"
  /\ pid' = Pid(cur)
  /\ elapsed' = 0
  /\ pc' = "stop_term"
  /\ UNCHANGED <<osVars, mainVars, sigLog, polls, startVars, ret, exitCode,
                 log, calls>>

\* stop() has no return statement: it returns None
StopReturns ==
  /\ ret' = "None"
  /\ pc' = "ret"
  /\ pid' = 0
  /\ elapsed' = 0
  /\ polls' = 0

\* the record of one os.kill(pid, sig): when it was made, whether it returned
\* without OSError, and what the processes it reached had received before
Sent(sig, ok) ==
  [sig |-> sig, pid |-> pid, at |-> elapsed, ok |-> ok,
   was |-> {proc[q] : q \in KillTargetsIn(proc, pid)}]

\* os.kill(pid, signal.SIGTERM) with pid = 0: the signal goes to the process
\* group of the caller, the supervisor included, whose default action on
\* SIGTERM is to terminate
StopTermSelf ==
  /\ pc = "stop_term" /\ KillsSelf(pid)
  /\ sigLog' = Append(sigLog, Sent(SIGTERM, TRUE))
  /\ Exit(0 - SIGTERM)
  /\ UNCHANGED <<osVars, mainVars, reportedPid, ret, log, calls>>

\* os.kill(pid, signal.SIGTERM) raises OSError: log 'not started'
StopTermFails ==
  /\ pc = "stop_term" /\ ~KillOKIn(proc, pid)
  /\ sigLog' = Append(sigLog, Sent(SIGTERM, FALSE))
  /\ log' = Append(log, "not started")
  /\ StopReturns
  /\ UNCHANGED <<osVars, mainVars, startVars, exitCode, calls>>

\* os.kill(pid, signal.SIGTERM) delivered; log 'stopping...'; tstart = now
StopTermSent ==
  /\ pc = "stop_term" /\ ~KillsSelf(pid) /\ KillOKIn(proc, pid)
  /\ proc' = Signalled(pid, SIGTERM)
  /\ sigLog' = Append(sigLog, Sent(SIGTERM, TRUE))
  /\ log' = Append(log, "stopping...")
  /\ elapsed' = 0
  /\ pc' = "stop_wait"
  /\ UNCHANGED <<pidfile, dirs, launched, mainVars, pid, polls, startVars,
                 ret, exitCode, calls>>

\* mutant: the comparison with the timeout is the wrong way round
StopWaitTestReversed ==
  elapsed > KillTimeout * TicksPerUnit /\ process_exists(pid)

\* while time.time() - tstart < config.kill_timeout and process_exists(pid):
\*   time.sleep(0.5)
StopWaitTest == elapsed < KillTimeout * TicksPerUnit /\ process_exists(pid)

\* mutant: the time is taken again on every round of the loop (tstart is set
\* inside it), so that no time is ever seen to have passed
StopSleepNoTime(dt) ==
  /\ pc = "stop_wait" /\ StopWaitTest
  /\ elapsed' = 0
  /\ polls' = polls + 1
  /\ UNCHANGED <<osVars, mainVars, pc, pid, sigLog, startVars, ret, exitCode,
                 log, calls>>

StopSleep(dt) ==
  /\ pc = "stop_wait" /\ StopWaitTest
  /\ elapsed' = elapsed + dt
  /\ polls' = polls + 1
  /\ UNCHANGED <<osVars, mainVars, pc, pid, sigLog, startVars, ret, exitCode,
                 log, calls>>

StopWaitEnds ==
  /\ pc = "stop_wait" /\ ~StopWaitTest
  /\ pc' = "stop_check"
  /\ polls' = 0
  /\ UNCHANGED <<osVars, mainVars, pid, elapsed, sigLog, startVars, ret,
                 exitCode, log, calls>>

\* if process_exists(pid): log 'not stopped.' ... else: log 'stopped'
StopCheckAlive ==
  /\ pc = "stop_check" /\ process_exists(pid)
  /\ log' = Append(log, "not stopped.")
  /\ pc' = "stop_kill"
  /\ UNCHANGED <<osVars, mainVars, stopVars, startVars, ret, exitCode, calls>>

\* mutant: stop() removes the PID file of the daemon it found stopped
StopCheckGoneRemoves ==
  /\ pc = "stop_check" /\ ~process_exists(pid)
  /\ log' = Append(log, "stopped")
  /\ pidfile' = [pidfile EXCEPT ![cur] = NoFile]
  /\ StopReturns
  /\ UNCHANGED <<dirs, proc, launched, mainVars, sigLog, startVars, exitCode,
                 calls>>

StopCheckGone ==
  /\ pc = "stop_check" /\ ~process_exists(pid)
  /\ log' = Append(log, "stopped")
  /\ StopReturns
  /\ UNCHANGED <<osVars, mainVars, sigLog, startVars, exitCode, calls>>

\* mutant: the escalation sends SIGTERM a second time
StopKillSendsTerm ==
  /\ pc = "stop_kill" /\ KillOKIn(proc, pid)
  /\ proc' = Signalled(pid, SIGTERM)
  /\ sigLog' = Append(sigLog, Sent(SIGTERM, TRUE))
  /\ log' = Append(log, "SIGKILL")
  /\ StopReturns
  /\ UNCHANGED <<pidfile, dirs, launched, mainVars, startVars, exitCode, calls>>

\* os.kill(pid, signal.SIGKILL); OSError logs 'stopped', success 'SIGKILL'
StopKillSent ==
  /\ pc = "stop_kill" /\ KillOKIn(proc, pid)
  /\ proc' = Signalled(pid, SIGKILL)
  /\ sigLog' = Append(sigLog, Sent(SIGKILL, TRUE))
  /\ log' = Append(log, "SIGKILL")
  /\ StopReturns
  /\ UNCHANGED <<pidfile, dirs, launched, mainVars, startVars, exitCode, calls>>

\* mutant: the second os.kill() is not inside a try: its OSError leaves
\* stop() and main()
StopKillFailsRaises ==
  /\ pc = "stop_kill" /\ ~KillOKIn(proc, pid)
  /\ sigLog' = Append(sigLog, Sent(SIGKILL, FALSE))
  /\ Exit(1)
  /\ UNCHANGED <<osVars, mainVars, reportedPid, ret, log, calls>>

StopKillFails ==
  /\ pc = "stop_kill" /\ ~KillOKIn(proc, pid)
  /\ sigLog' = Append(sigLog, Sent(SIGKILL, FALSE))
  /\ log' = Append(log, "stopped")
  /\ StopReturns
  /\ UNCHANGED <<osVars, mainVars, startVars, exitCode, calls>>

\* ---- Daemon.start(): the supervising flow -------------------------------
\* mutant: the 'return True' after the 'already started' line is missing
StartAlreadyFallsThrough ==
  /\ pc = "start_status" /\ Status(cur) = "started"
  /\ log' = Append(log, "daemon already started")
  /\ pc' = "start_ident"
  /\ UNCHANGED <<osVars, mainVars, stopVars, startVars, ret, exitCode, calls>>

\* if self.status == self.Status_Started: log, return True
StartAlready ==
  /\ pc = "start_status" /\ Status(cur) = "started"
  /\ log' = Append(log, "daemon already started")
  /\ ret' = "True"
  /\ pc' = "ret"
  /\ UNCHANGED <<osVars, mainVars, stopVars, startVars, exitCode, calls>>

StartNotRunning ==
  /\ pc = "start_status" /\ Status(cur) # "started"
  /\ pc' = "start_ident"
  /\ UNCHANGED <<osVars, mainVars, stopVars, startVars, ret, exitCode, log,
                 calls>>

Names == {"unset", "known", "unknown"}

\* pwd.getpwnam(self.user) / grp.getgrnam(self.group): user and group are the
\* daemon's configuration, root whether the invoker is privileged
StartIdentity(user, group, root) ==
  /\ pc = "start_ident" /\ user # "unknown" /\ group # "unknown"
  /\ ident' = [uid |-> IF user = "known" THEN "id" ELSE "None",
               gid |-> IF user = "known" \/ group = "known" THEN "id" ELSE "None",
               invoker |-> IF root /\ (user = "known" \/ group = "known")
                           THEN "root" ELSE "user",
               root |-> root /\ (user = "known" \/ group = "known")]
  /\ pc' = "start_fork"
  /\ done' = Append(done, "getpwnam")
  /\ UNCHANGED <<osVars, mainVars, stopVars, child, pidf, process, wstatus,
                 reportedPid, ret, exitCode, log, calls>>

\* an unknown name raises KeyError, which nothing catches: main() ends with
\* a traceback and exit code 1
StartIdentityRaises(user, group) ==
  /\ pc = "start_ident" /\ (user = "unknown" \/ group = "unknown")
  /\ Exit(1)
  /\ UNCHANGED <<osVars, mainVars, sigLog, reportedPid, ret, log, calls>>

\* pid = os.fork(); the parent blocks in os.waitpid(pid, 0)
StartFork(q) ==
  /\ pc = "start_fork" /\ q \in FreePids
  /\ proc' = [proc EXCEPT ![q] = "child"]
  /\ child' = q
  /\ pc' = "child_makedirs"
  /\ done' = Append(done, "fork")
  /\ UNCHANGED <<pidfile, dirs, launched, mainVars, stopVars, ident, pidf,
                 process, wstatus, reportedPid, ret, exitCode, log, calls>>

\* if os.waitpid(pid, 0)[1] == 0: log 'started (PID: ...)' else: log 'could
\* not be started ...'; return True
ParentWait ==
  /\ pc = "wait"
  /\ proc' = [proc EXCEPT ![child] = "none"]
  /\ IF wstatus = 0
     THEN /\ log' = Append(log, "started")
          /\ reportedPid' = Pid(cur)
     ELSE /\ log' = Append(log, "could not be started")
          /\ UNCHANGED reportedPid
  /\ ret' = "True"
  /\ pc' = "ret"
  /\ child' = 0
  /\ wstatus' = 0
  /\ UNCHANGED <<pidfile, dirs, launched, mainVars, stopVars, ident, pidf,
                 process, done, exitCode, calls>>

\* ---- Daemon.start(): the detached flow (the child of os.fork()) ---------
\* mutant: the flow ends without closing pidf (as os._exit() would end it),
\* and what pidf.write() buffered never reaches the file
ChildEndsNoFlush(s) ==
  /\ pidfile' = pidfile
  /\ pidf' = NoPidf
  /\ wstatus' = s
  /\ ident' = NoIdent
  /\ done' = <<>>
  /\ pc' = "wait"

\* the detached flow ends with exit status s, and its locals with it;
\* 'finally: pidf.close()' writes what pidf.write() buffered
ChildEnds(s) ==
  /\ pidfile' = IF pidf.open THEN [pidfile EXCEPT ![cur] = File(pidf.buf)]
                ELSE pidfile
  /\ pidf' = NoPidf
  /\ wstatus' = s
  /\ ident' = NoIdent
  /\ done' = <<>>
  /\ pc' = "wait"

\* makedirs(os.path.dirname(...)) of pidfile, stdin, stdout, stderr
ChildMakedirs ==
  /\ pc = "child_makedirs"
  /\ dirs' = dirs \cup {cur}
  /\ pc' = "child_openpidf"
  /\ done' = Append(done, "makedirs")
  /\ UNCHANGED <<pidfile, proc, launched, mainVars, stopVars, ident, child,
                 pidf, process, wstatus, reportedPid, ret, exitCode, log,
                 calls>>

\* pidf = open(self.pidfile, 'w'): the file is created or truncated
ChildOpenPidf ==
  /\ pc = "child_openpidf" /\ cur \in dirs
  /\ pidfile' = [pidfile EXCEPT ![cur] = File(<<>>)]
  /\ pidf' = [open |-> TRUE, buf |-> <<>>]
  /\ pc' = "child_setsid"
  /\ done' = Append(done, "open pidfile")
  /\ UNCHANGED <<dirs, proc, launched, mainVars, stopVars, ident, child,
                 process, wstatus, reportedPid, ret, exitCode, log, calls>>

\* mutant: the flow goes from setsid() straight on to the working directory,
\* the change of user and group is left out
ChildSetsidNoDrop ==
  /\ pc = "child_setsid"
  /\ pc' = "child_chdir"
  /\ done' = Append(done, "setsid")
  /\ UNCHANGED <<osVars, mainVars, stopVars, ident, child, pidf, process,
                 wstatus, reportedPid, ret, exitCode, log, calls>>

\* os.setsid()
ChildSetsid ==
  /\ pc = "child_setsid"
  /\ pc' = "child_setuid"
  /\ done' = Append(done, "setsid")
  /\ UNCHANGED <<osVars, mainVars, stopVars, ident, child, pidf, process,
                 wstatus, reportedPid, ret, exitCode, log, calls>>

\* if uid is not None: os.setuid(uid).  Root may, and is root no longer
\* afterwards; anybody else may only name the uid it already has.
ChildSetuid ==
  /\ pc = "child_setuid"
  /\ ident' = IF ident.uid # "None" THEN [ident EXCEPT !.root = FALSE] ELSE ident
  /\ pc' = "child_setgid"
  /\ done' = IF ident.uid # "None" THEN Append(done, "setuid") ELSE done
  /\ UNCHANGED <<osVars, mainVars, stopVars, child, pidf, process, wstatus,
                 reportedPid, ret, exitCode, log, calls>>

\* EPERM: log 'not permitted to change to user', sys.exit(errno.EPERM)
ChildSetuidEPERM ==
  /\ pc = "child_setuid" /\ ident.uid # "None" /\ ~ident.root
  /\ log' = Append(log, "not permitted to change to user")
  /\ ChildEnds(EPERM)
  /\ UNCHANGED <<dirs, proc, launched, mainVars, stopVars, child, process,
                 reportedPid, ret, exitCode, calls>>

\* if gid is not None: os.setgid(gid)
ChildSetgid ==
  /\ pc = "child_setgid"
  /\ pc' = "child_chdir"
  /\ done' = IF ident.gid # "None" THEN Append(done, "setgid") ELSE done
  /\ UNCHANGED <<osVars, mainVars, stopVars, ident, child, pidf, process,
                 wstatus, reportedPid, ret, exitCode, log, calls>>

\* mutant: the refusal is logged, but the sys.exit() is missing and the flow
\* carries on
ChildSetgidEPERMNoExit ==
  /\ pc = "child_setgid" /\ ident.gid # "None" /\ ~ident.root
  /\ log' = Append(log, "not permitted to change to group")
  /\ pc' = "child_chdir"
  /\ UNCHANGED <<osVars, mainVars, stopVars, startVars, ret, exitCode, calls>>

ChildSetgidEPERM ==
  /\ pc = "child_setgid" /\ ident.gid # "None" /\ ~ident.root
  /\ log' = Append(log, "not permitted to change to group")
  /\ ChildEnds(EPERM)
  /\ UNCHANGED <<dirs, proc, launched, mainVars, stopVars, child, process,
                 reportedPid, ret, exitCode, calls>>

\* os.environ['HOME'] = home; os.chdir(...)
ChildChdir ==
  /\ pc = "child_chdir"
  /\ pc' = "child_openio"
  /\ done' = Append(done, "chdir")
  /\ UNCHANGED <<osVars, mainVars, stopVars, ident, child, pidf, process,
                 wstatus, reportedPid, ret, exitCode, log, calls>>

\* si, so, se = open(self.stdin), open(self.stdout, 'a+'), ...
ChildOpenIO ==
  /\ pc = "child_openio" /\ cur \in dirs
  /\ pc' = "child_redirect"
  /\ done' = Append(done, "open stdio")
  /\ UNCHANGED <<osVars, mainVars, stopVars, ident, child, pidf, process,
                 wstatus, reportedPid, ret, exitCode, log, calls>>

\* log 'running <command>', then os.dup2() onto stdin, stdout, stderr
ChildRedirect ==
  /\ pc = "child_redirect"
  /\ log' = Append(log, "running")
  /\ pc' = "child_popen"
  /\ done' = Append(done, "dup2")
  /\ UNCHANGED <<osVars, mainVars, stopVars, ident, child, pidf, process,
                 wstatus, reportedPid, ret, exitCode, calls>>

\* mutant: the program replaces the image of the detached flow (os.execvp)
\* and so runs under the id the fork returned
ChildPopenExec(q) ==
  /\ pc = "child_popen" /\ q \in FreePids
  /\ proc' = [proc EXCEPT ![child] = "run"]
  /\ launched' = [launched EXCEPT ![cur] = child]
  /\ process' = child
  /\ pc' = "child_write"
  /\ done' = Append(done, "Popen")
  /\ UNCHANGED <<pidfile, dirs, mainVars, stopVars, ident, child, pidf,
                 wstatus, reportedPid, ret, exitCode, log, calls>>

\* process = subprocess.Popen(command): the program is a new process, a
\* child of the detached flow
ChildPopen(q) ==
  /\ pc = "child_popen" /\ q \in FreePids
  /\ proc' = [proc EXCEPT ![q] = "run"]
  /\ launched' = [launched EXCEPT ![cur] = q]
  /\ process' = q
  /\ pc' = "child_write"
  /\ done' = Append(done, "Popen")
  /\ UNCHANGED <<pidfile, dirs, mainVars, stopVars, ident, child, pidf,
                 wstatus, reportedPid, ret, exitCode, log, calls>>

\* mutant: the detached flow records its own id, not the program's
ChildWriteOwnPid ==
  /\ pc = "child_write"
  /\ pidf' = [pidf EXCEPT !.buf = Str(child)]
  /\ pc' = "child_exit"
  /\ done' = Append(done, "write")
  /\ UNCHANGED <<osVars, mainVars, stopVars, ident, child, process, wstatus,
                 reportedPid, ret, exitCode, log, calls>>

\* pidf.write(str(process.pid)): buffered until the file is closed
ChildWrite ==
  /\ pc = "child_write"
  /\ pidf' = [pidf EXCEPT !.buf = Str(process)]
  /\ pc' = "child_exit"
  /\ done' = Append(done, "write")
  /\ UNCHANGED <<osVars, mainVars, stopVars, ident, child, process, wstatus,
                 reportedPid, ret, exitCode, log, calls>>

\* sys.exit(0), through 'finally: pidf.close()'
ChildExit ==
  /\ pc = "child_exit"
  /\ ChildEnds(0)
  /\ UNCHANGED <<dirs, proc, launched, mainVars, stopVars, child, process,
                 reportedPid, ret, exitCode, log, calls>>

\* the statements of the detached flow that can raise (a directory that cannot
\* be made, a file that cannot be opened, a missing working directory or
\* program): the exception leaves main() and the flow exits with status 1
Raising == {"child_makedirs", "child_openpidf", "child_chdir", "child_openio",
            "child_popen"}

ChildRaises ==
  /\ pc \in Raising
  /\ ChildEnds(1)
  /\ UNCHANGED <<dirs, proc, launched, mainVars, stopVars, child, process,
                 reportedPid, ret, exitCode, log, calls>>

\* ---- the specification --------------------------------------------------
Environment ==
  \E q \in PIDs : ProcExit(q) \/ KillDelivered(q) \/ SpawnOther(q)

Main ==
  \/ \E c \in Commands, sel \in Selections : Invoke(c, sel)
  \/ MainStatus \/ MainCallStop \/ MainCallStart
  \/ MainRestartStarts \/ MainReturn0 \/ MainAfterCall

Stop ==
  \/ StopReadPid \/ StopTermSelf \/ StopTermFails \/ StopTermSent
  \/ (\E dt \in 1..(1 + MaxOversleep) : StopSleep(dt))
  \/ StopWaitEnds \/ StopCheckAlive \/ StopCheckGone
  \/ StopKillSent \/ StopKillFails

Start ==
  \/ StartAlready \/ StartNotRunning
  \/ (\E user \in Names, group \in Names, root \in BOOLEAN :
        StartIdentity(user, group, root))
  \/ (\E user \in Names, group \in Names : StartIdentityRaises(user, group))
  \/ (\E q \in PIDs : StartFork(q))
  \/ ParentWait

Detached ==
  \/ ChildMakedirs \/ ChildOpenPidf \/ ChildSetsid
  \/ ChildSetuid \/ ChildSetuidEPERM \/ ChildSetgid \/ ChildSetgidEPERM
  \/ ChildChdir \/ ChildOpenIO \/ ChildRedirect
  \/ (\E q \in PIDs : ChildPopen(q))
  \/ ChildWrite \/ ChildExit \/ ChildRaises

Next == Environment \/ Main \/ Stop \/ Start \/ Detached

Spec == Init /\ [][Next]_vars

\* ---- Daemon.pid and Daemon.status over any PID file ---------------------
\* Contents a PID file can be found with: the ones the program writes, and
\* what somebody else may have left there.
Garbage == {<<>>, <<"a", "b", "c">>, <<"-", "1">>}

PidFiles == {NoFile} \cup {File(s) : s \in Garbage \cup {Str(q) : q \in PIDs}}

InitStatus ==
  /\ pidfile \in [Daemons -> PidFiles]
  /\ dirs = Daemons
  /\ proc \in [PIDs -> {"none", "run"}]
  /\ launched = [d \in Daemons |-> 0]
  /\ cmd = "none" /\ targets = <<>> /\ loop = "none" /\ idx = 1 /\ pc = "idle"
  /\ pid = 0 /\ elapsed = 0
  /\ ident = NoIdent /\ child = 0 /\ pidf = NoPidf /\ process = 0 /\ wstatus = 0
  /\ ret = "None" /\ exitCode = 0 /\ log = <<>> /\ reportedPid = 0
  /\ sigLog = <<>> /\ calls = <<>> /\ done = <<>> /\ polls = 0

\* 'nocrux status ...' while processes come and go
NextStatus ==
  \/ (\E q \in PIDs : ProcExit(q) \/ SpawnOther(q))
  \/ (\E sel \in Selections : Invoke("status", sel))
  \/ MainStatus \/ MainReturn0

SpecStatus == InitStatus /\ [][NextStatus]_vars

\* ---- 'nocrux stop ...' from any state of PID files and processes ---------
\* What a stop command can find: each PID file missing or holding an id that
\* start() wrote, and under each id a process or none.
InitStop ==
  /\ pidfile \in [Daemons -> {NoFile} \cup {File(Str(q)) : q \in PIDs}]
  /\ dirs = Daemons
  /\ proc \in [PIDs -> {"none", "run"}]
  /\ launched = [d \in Daemons |-> 0]
  /\ cmd = "none" /\ targets = <<>> /\ loop = "none" /\ idx = 1 /\ pc = "idle"
  /\ pid = 0 /\ elapsed = 0
  /\ ident = NoIdent /\ child = 0 /\ pidf = NoPidf /\ process = 0 /\ wstatus = 0
  /\ ret = "None" /\ exitCode = 0 /\ log = <<>> /\ reportedPid = 0
  /\ sigLog = <<>> /\ calls = <<>> /\ done = <<>> /\ polls = 0

NextStop ==
  \/ Environment
  \/ (\E sel \in Selections : Invoke("stop", sel))
  \/ MainCallStop \/ MainAfterCall
  \/ Stop

\* The supervising flow is a process of its own that the scheduler keeps
\* running: a statement of stop() that can be executed is executed, and a
\* time.sleep(0.5) returns.
SpecStop == InitStop /\ [][NextStop]_vars /\ WF_vars(Stop)

\* ---- properties ---------------------------------------------------------
Live(p) == p \in PIDs /\ proc[p] # "none"

Last(seq) == seq[Len(seq)]

\* main() is between a call of op and its handling of the value returned
Returned(op) == pc = "ret" /\ calls # <<>> /\ Last(calls)[1] = op

Said(line) == log # <<>> /\ Last(log) = line

\* C1: start() of a daemon whose status is Started goes straight to its
\* return: it returns True, logs 'daemon already started' and nothing else,
\* and leaves the process table and every PID file as they are; as this holds
\* of every reachable state, it holds of each of any number of start() calls.
C1_StartIdempotent ==
  [][(pc = "start_status" /\ Status(cur) = "started" /\ pc' # pc)
       => /\ pc' = "ret"
          /\ ret' = "True"
          /\ log' = <<"daemon already started">>
          /\ proc' = proc
          /\ launched' = launched
          /\ pidfile' = pidfile]_vars

\* start() has returned for a daemon whose program runs under the recorded id
C1_Witness ==
  /\ Returned("start") /\ ret = "True"
  /\ log = <<"daemon already started">>
  /\ launched[cur] # 0 /\ Pid(cur) = launched[cur]

\* the stop() that the record of signals belongs to found nothing to stop:
\* the PID file named no process (id 0) or the process named was absent
FoundNotRunning == sigLog # <<>> /\ (sigLog[1].pid = 0 \/ ~sigLog[1].ok)

\* C2: stop() of a daemon that is not running logs 'not started' and returns
\* success, and the stop command finishes with exit code 0.
C2_StopIdempotent ==
  /\ (Returned("stop") /\ FoundNotRunning)
       => (log = <<"not started">> /\ ret = "True")
  /\ (pc = "idle" /\ cmd = "stop" /\ FoundNotRunning) => exitCode = 0

Sentinel(f) == ~f.exists \/ f.text \in Garbage

\* C3: once 'status' has reported on a daemon whose PID file is missing,
\* empty, "abc" or "-1", the id read from that file is 0 and the report is
\* 'stopped', whatever the process table holds.
C3_SentinelTolerance ==
  (pc = "loop" /\ cmd = "status" /\ idx > 1 /\ Sentinel(pidfile[targets[idx - 1]]))
    => (Pid(targets[idx - 1]) = 0 /\ log = <<"stopped">>)

\* C4: in every state the status of a daemon is Started exactly when the id
\* in its PID file is non-zero and a process with that id exists now, and
\* what the status command logs is derived from the PID file and the process
\* table as they are when it asks, not from anything remembered.
C4_StatusIsLive ==
  /\ [](\A d \in Daemons :
          Status(d) = "started" <=> (Pid(d) # 0 /\ Live(Pid(d))))
  /\ [][(pc = "loop" /\ loop = "status" /\ idx' = idx + 1)
          => log' = <<IF Pid(cur) # 0 /\ Live(Pid(cur))
                      THEN "started" ELSE "stopped">>]_vars

\* 'status' says stopped of a daemon whose PID file still holds the id its
\* program ran under: the program has gone and the file was not touched
C4_Witness ==
  /\ pc = "loop" /\ cmd = "status" /\ idx > 1 /\ log = <<"stopped">>
  /\ Pid(targets[idx - 1]) \in PIDs
  /\ ~Live(Pid(targets[idx - 1]))

\* the detached flow of d's start is between launching the program and exiting
Launching(d) == pc \in {"child_write", "child_exit"} /\ cur = d

\* C5 as stated: when start() of a Stopped daemon reports success, the PID
\* file holds a positive id and the launched program is running under it.
C5_RecordsLiveProgram ==
  (Returned("start") /\ Said("started"))
    => (Pid(cur) \in PIDs /\ launched[cur] = Pid(cur))

\* C5 amended: when start() of a Stopped daemon reports success, the PID file holds
\* the decimal text of a positive id, the id of the program just launched; and
\* from the moment the detached flow has exited, as long as that program is
\* running the PID file holds its id and the status is Started.
C5_StartRecordsProgram ==
  /\ (Returned("start") /\ Said("started"))
       => /\ process \in PIDs
          /\ pidfile[cur] = File(Str(process))
          /\ Pid(cur) = process
          /\ reportedPid = process
  /\ \A d \in Daemons :
       (launched[d] # 0 /\ ~Launching(d))
         => (Pid(d) = launched[d] /\ Status(d) = "started")

\* start() has reported 'started (PID: n)' and the program n is running
C5_Witness ==
  /\ Returned("start") /\ Said("started")
  /\ launched[cur] = reportedPid /\ reportedPid > 0
  /\ Status(cur) = "started"

\* C6: when the detached flow ends before launch with a non-zero status,
\* start() returns False and the start / restart command exits with code 1;
\* the command exits with 0 only if no start failed.
C6_FailedStartFails ==
  /\ (Returned("start") /\ Said("could not be started")) => ret = "False"
  /\ (pc = "idle" /\ cmd \in {"start", "restart"} /\ Said("could not be started"))
       => exitCode = 1

Timeout == KillTimeout * TicksPerUnit

Forceful(i) == sigLog[i].sig = SIGKILL /\ sigLog[i].ok

\* C7 as stated: a forceful signal is sent only as the second signal of a
\* stop(), after a graceful one that was delivered, and not before
\* kill_timeout time-units have passed since; hence none is sent when the
\* process disappears within the timeout.
C7_EscalationTiming ==
  \A i \in 1..Len(sigLog) :
    Forceful(i) => /\ i = 2
                   /\ sigLog[1].sig = SIGTERM /\ sigLog[1].ok
                   /\ sigLog[i].at >= Timeout

\* C7 amended: ... or the process the forceful signal reaches is not the one
\* the graceful signal went to: it never received a graceful signal, so the
\* daemon's process had gone and its id was given to a new process between
\* the last poll of the wait loop and the check that follows the loop.
C7_EscalationTimingUnlessReused ==
  \A i \in 1..Len(sigLog) :
    Forceful(i) => /\ i = 2
                   /\ sigLog[1].sig = SIGTERM /\ sigLog[1].ok
                   /\ (sigLog[i].at >= Timeout \/ sigLog[i].was = {"run"})

\* stop() escalated against the very process that ignored its SIGTERM
C7_Witness ==
  /\ Returned("stop") /\ Len(sigLog) = 2 /\ Forceful(2)
  /\ sigLog[2].was = {"termed"} /\ sigLog[2].at >= Timeout

\* the stop() that has returned had delivered SIGTERM to a process
StoppedRunning ==
  Returned("stop") /\ sigLog # <<>> /\ sigLog[1].ok /\ sigLog[1].pid \in PIDs

\* C8 as stated: at the moment stop() returns for a daemon whose recorded
\* process was running, no process has the recorded id and the status is
\* Stopped.
C8_AbsentAfterStop ==
  [][(pc # "ret" /\ StoppedRunning')
       => (~Live(sigLog[1].pid) /\ Status(cur) = "stopped")']_vars

\* C8 amended: when stop() returns for a daemon whose recorded process was
\* running, that process has exited or has the forceful signal pending: no
\* process that received SIGTERM and no SIGKILL is left under the id; and the
\* status is Stopped exactly when the id is free.
C8_GoneOrKilledAfterStop ==
  StoppedRunning =>
    /\ proc[sigLog[1].pid] # "termed"
    /\ (Status(cur) = "stopped" <=> proc[sigLog[1].pid] = "none")

\* stop() has returned after SIGTERM and SIGKILL, and the process that ignored
\* SIGTERM is still in the process table, SIGKILL pending
C8_Witness ==
  /\ StoppedRunning /\ Len(sigLog) = 2 /\ Forceful(2)
  /\ sigLog[2].was = {"termed"}
  /\ proc[sigLog[1].pid] = "killed"

Stops(sel) == [i \in 1..Len(sel) |-> <<"stop", sel[i]>>]
Starts(sel) == [i \in 1..Len(sel) |-> <<"start", sel[i]>>]
IsPrefix(x, y) == Len(x) <= Len(y) /\ x = SubSeq(y, 1, Len(x))

\* C9: restart calls stop() on every selected daemon, in order, and then
\* start() on every selected daemon, in order; whatever a stop() does, the
\* stops and starts after it are made, so a restart that has ended has made
\* all of them.
C9_RestartStopsThenStarts ==
  cmd = "restart" =>
    /\ IsPrefix(calls, Stops(targets) \o Starts(targets))
    /\ (pc = "idle" => calls = Stops(targets) \o Starts(targets))

\* C10: a stop() that read the id 0 from the PID file delivers no signal, logs
\* 'not started' when it is over, and the supervisor is not terminated by a
\* signal of its own.
C10_NoSignalForIdZero ==
  (sigLog # <<>> /\ sigLog[1].pid = 0) =>
    /\ ~sigLog[1].ok
    /\ (pc \in {"ret", "idle"} => log = <<"not started">>)
    /\ exitCode # 0 - SIGTERM

\* C11: a start() that leaves the resolution of the user and group names
\* without going on to the fork (a name was not resolved) returns to main() as
\* a failed start of that daemon, no process having been created; main() goes
\* on with its loop, so that a start command that has ended has called start()
\* on every selected daemon.
C11_UnresolvedNameFailsOneStart ==
  /\ [][(pc = "start_ident" /\ pc' \notin {"start_ident", "start_fork"})
          => (pc' = "ret" /\ ret' = "False" /\ proc' = proc)]_vars
  /\ []((pc = "idle" /\ cmd = "start") => calls = Starts(targets))

\* the statement x is among those the current start() has executed
Did(x) == \E i \in 1..Len(done) : done[i] = x

Pos(x) == CHOOSE i \in 1..Len(done) : done[i] = x

NotPermitted ==
  Said("not permitted to change to user") \/ Said("not permitted to change to group")

\* C12: when the detached flow has changed both its group id and its user
\* id, it changed the group id first; and when root starts a daemon that has
\* a user configured, no step of the start is refused a change.
C12_GroupBeforeUser ==
  /\ []((Did("setuid") /\ Did("setgid")) => Pos("setgid") < Pos("setuid"))
  /\ [][(ident.invoker = "root" /\ ident.uid # "None") => ~NotPermitted']_vars

\* C13: the stop command calls stop() on the selected daemons in selection
\* order, one call at a time; when main() has returned it has called stop()
\* on every selected daemon, and no selected daemon's program is left running
\* without having received SIGTERM.
C13_StopsEverySelected ==
  cmd = "stop" =>
    /\ IsPrefix(calls, Stops(targets))
    /\ (pc = "idle" /\ exitCode \in {0, 1}) =>
         /\ calls = Stops(targets)
         /\ \A i \in 1..Len(targets) :
              launched[targets[i]] # 0 => proc[launched[targets[i]]] # "run"

\* of the statements in seq, those the current start() has executed were
\* executed in the order of seq
InOrder(seq) ==
  \A i, j \in 1..Len(seq) :
    (i < j /\ Did(seq[i]) /\ Did(seq[j])) => Pos(seq[i]) < Pos(seq[j])

DropPrivileges == {"setuid", "setgid"}

\* C14 as stated: a start() that has launched the program resolved the names,
\* then made the new session, then changed user and group, then changed the
\* working directory, then created the directories, then opened the files and
\* redirected the standard streams, then launched; the PID file was opened
\* after the new session, the change of user and group and the creation of
\* the directories.
C14_PhaseOrder ==
  Did("Popen") =>
    \A x \in DropPrivileges :
      /\ InOrder(<<"getpwnam", "fork", "setsid", x, "chdir", "makedirs",
                   "open stdio", "dup2", "Popen">>)
      /\ InOrder(<<"setsid", x, "makedirs", "open pidfile">>)

\* C14 amended: a start() that has launched the program resolved the names,
\* forked, created the directories, opened the PID file, made the new session,
\* changed user and group as far as configured, changed the working
\* directory, opened the files of the standard streams, redirected them and
\* launched, in this order and leaving none of it out.
C14_PhaseOrderOfCode ==
  Did("Popen") =>
    /\ \A x \in DropPrivileges :
         InOrder(<<"getpwnam", "fork", "makedirs", "open pidfile", "setsid", x,
                   "chdir", "open stdio", "dup2", "Popen">>)
    /\ \A x \in {"getpwnam", "fork", "makedirs", "open pidfile", "setsid",
                  "chdir", "open stdio", "dup2"} : Did(x)
    /\ ident.uid # "None" => Did("setuid")
    /\ ident.gid # "None" => Did("setgid")
    /\ cur \in dirs

\* the program of a daemon with a user configured has been launched
C14_Witness ==
  /\ pc = "child_write" /\ Did("Popen") /\ Did("setuid") /\ Did("setgid")
  /\ process \in PIDs /\ proc[process] = "run"

\* the supervising flow can see that the detached flow exited with status 0
Success == pc = "wait" /\ wstatus = 0

\* C15 as stated: once the program is launched it runs under the id that
\* os.fork() returned to the supervising flow, and that id is the one found
\* in the PID file when the supervising flow has waited.
C15_LaunchKeepsForkId ==
  /\ Did("Popen") => process = child
  /\ Success => Pid(cur) = child

\* C15 amended: the program is a new process, with an id other than the one
\* os.fork() returned; the PID file read after a launch holds the id of the
\* program; and a process of a detached flow exists only while a start()
\* is between its fork and the end of its waitpid().
C15_ProgramIsNewProcess ==
  /\ (Did("Popen") \/ Success) =>
       /\ process \in PIDs /\ child \in PIDs /\ process # child
       /\ proc[child] = "child"
  /\ Success => Pid(cur) = process
  /\ \A q \in PIDs :
       proc[q] = "child" => (q = child /\ (Did("fork") \/ pc = "wait"))

\* the detached flow has exited with status 0 and is not yet waited for; the
\* program it launched runs under an id of its own
C15_Witness ==
  /\ Success
  /\ proc[child] = "child" /\ proc[process] = "run"
  /\ process # child /\ Pid(cur) = process

\* C16 as stated: when the supervising flow can see the success of the
\* detached flow, and when it has reported 'started (PID: n)', the PID file
\* holds the id of the program launched; and the id was written as the last
\* statement before the launch.
C16_WriteBeforeLaunch ==
  /\ Success => (process \in PIDs /\ Pid(cur) = process)
  /\ (Returned("start") /\ Said("started")) => reportedPid = process
  /\ Did("Popen") => (Did("write") /\ Pos("write") + 1 = Pos("Popen"))

\* C16 amended: ... the PID file holds the id of the program launched; and
\* the id was written as the first statement after the launch, and has reached
\* the file when the detached flow has exited.
C16_WriteAfterLaunch ==
  /\ Success => (process \in PIDs /\ pidfile[cur] = File(Str(process))
                   /\ Pid(cur) = process)
  /\ (Returned("start") /\ Said("started")) => reportedPid = process
  /\ Did("write") => (Did("Popen") /\ Pos("Popen") + 1 = Pos("write"))

\* start() has reported the id of the program it launched, read from the
\* PID file after the detached flow had exited
C16_Witness ==
  /\ Returned("start") /\ Said("started")
  /\ process \in PIDs /\ reportedPid = process
  /\ pidfile[cur] = File(Str(process))

InStop == pc \in {"stop_pid", "stop_term", "stop_wait", "stop_check", "stop_kill"}

Count(sig) == Cardinality({i \in 1..Len(sigLog) : sigLog[i].sig = sig})

\* C17: a stop() that has begun comes to its end, whatever the processes do;
\* the wait loop goes round only while the process exists and fewer than
\* kill_timeout time-units have passed since SIGTERM, so it sleeps at most
\* 2 * kill_timeout times; and one stop() sends at most one SIGTERM and at
\* most one SIGKILL, the SIGKILL never before the SIGTERM.
C17_StopTerminates ==
  /\ InStop ~> ~InStop
  /\ [][polls' > polls => (elapsed < Timeout /\ Live(pid))]_vars
  /\ [](/\ polls <= TicksPerUnit * KillTimeout
        /\ polls <= elapsed
        /\ Count(SIGTERM) <= 1 /\ Count(SIGKILL) <= 1
        /\ Len(sigLog) = Count(SIGTERM) + Count(SIGKILL)
        /\ (sigLog # <<>> => sigLog[1].sig = SIGTERM))

\* the process has ignored SIGTERM through the whole timeout: the wait loop
\* has slept 2 * kill_timeout times and is about to end
C17_Witness ==
  /\ pc = "stop_wait" /\ polls = TicksPerUnit * KillTimeout
  /\ pid \in PIDs /\ proc[pid] = "termed"

\* the detached flow of the current start() was refused a change of user or
\* group
Refused ==
  \E i \in 1..Len(log) :
    log[i] \in {"not permitted to change to user",
                "not permitted to change to group"}

\* C18: when setuid() or setgid() is refused, the detached flow ends with the
\* exit status EPERM, which is not 0, and no program has been launched; the
\* supervising flow logs 'could not be started', start() returns to main(),
\* and main() goes on with the next selected daemon.
C18_PermissionFailure ==
  /\ []((Refused /\ pc = "wait")
          => (wstatus = EPERM /\ wstatus # 0 /\ process = 0 /\ launched[cur] = 0))
  /\ []((Refused /\ pc # "wait" /\ pc # "idle")
          => (Returned("start") /\ Said("could not be started") /\ process = 0
              /\ launched[cur] = 0))
  /\ [][(Refused /\ Returned("start") /\ pc' # pc)
          => (pc' = "loop" /\ idx' = idx + 1 /\ exitCode' = exitCode)]_vars

\* start() has returned after a refused change of user or group, and there is
\* a daemon left to start
C18_Witness ==
  /\ Refused /\ Returned("start") /\ Said("could not be started")
  /\ idx < Len(targets)

\* C19: when stop() comes to send SIGKILL and the process it found alive just
\* before is gone, it logs 'stopped' after 'stopping...' and 'not stopped.'
\* and returns to main(); no process is touched and main() is not ended.
C19_VanishedBeforeKill ==
  [][(pc = "stop_kill" /\ ~Live(pid) /\ pc' # pc)
       => /\ pc' = "ret"
          /\ log' = <<"stopping...", "not stopped.", "stopped">>
          /\ Len(sigLog') = 2 /\ sigLog'[2].sig = SIGKILL /\ ~sigLog'[2].ok
          /\ proc' = proc
          /\ exitCode' = exitCode]_vars

\* stop() has returned after a SIGKILL that found no process
C19_Witness ==
  /\ Returned("stop") /\ log = <<"stopping...", "not stopped.", "stopped">>
  /\ Len(sigLog) = 2 /\ ~sigLog[2].ok /\ sigLog[2].was = {}

\* C20: no step made while stop() runs, or while the status command runs,
\* changes a PID file or creates one; so when stop() has returned, and when the
\* stop command has ended, the PID file of the daemon still holds the id that
\* stop() read from it, and the status of the daemon is Started exactly when
\* some process has that id.
C20_PidFileUntouched ==
  /\ [][(InStop \/ (pc = "loop" /\ loop = "status"))
          => pidfile' = pidfile]_vars
  /\ []((cmd = "stop" /\ pc \in {"ret", "idle"} /\ sigLog # <<>>)
          => /\ Pid(cur) = sigLog[1].pid
             /\ (Status(cur) = "started" <=> Live(sigLog[1].pid)))

\* the stop command has ended, the daemon's process has gone, and a process
\* that is not the daemon's has been given the id the PID file still holds:
\* the status is Started
C20_Witness ==
  /\ pc = "idle" /\ cmd = "stop" /\ sigLog # <<>> /\ sigLog[1].ok
  /\ pidfile[cur] = File(Str(sigLog[1].pid))
  /\ launched[cur] = 0 /\ proc[sigLog[1].pid] = "run"
  /\ Status(cur) = "started"

====
